---- MODULE Spec2Model ----
(***************************************************************************)
(* Model of gogogate2.py: the GoGoGate2 client.  One client instance with  *)
(* the field session_id, and callers that run getStatus, getTemp and       *)
(* toggleDoor on it.  Every HTTP request is one step: the device's answer  *)
(* (status code, body, cookie) is chosen nondeterministically and the code *)
(* that follows the request up to the next request (or the return) runs in *)
(* the same step.                                                          *)
(***************************************************************************)
EXTENDS Integers, Sequences, FiniteSets, TLC

(* ---------------------------- bounds ---------------------------------- *)
\* session cookies the device may hand out are 1..NumTokens
NumTokens == 2
\* door numbers a caller may pass to toggleDoor are 1..MaxDoorArg
MaxDoorArg == 4
\* raw temperatures handed to the conversion go up to MaxRawK * 1250
\* thousandths of a degree Celsius on either side of zero
MaxRawK == 80

(* ------------------------ program constants --------------------------- *)
\* range(1, 4) in _doGetTemp: the doors 1, 2, 3
NumDoors == 3
\* the only status code the code tests for
HTTP_OK == 200

Callers == {1, 2}
Tokens == 1..NumTokens
\* self.session_id = None
NoSession == 0
\* a response without a PHPSESSID cookie
NoCookie == 0
DoorArgs == 1..MaxDoorArg
\* the status codes the device answers with: 200 and an error
StatusCodes == {HTTP_OK, 500}

(* --------------------------- Python values ---------------------------- *)
None == [t |-> "None", v |-> <<>>]
True == [t |-> "True", v |-> <<>>]
False == [t |-> "False", v |-> <<>>]
List(s) == [t |-> "list", v |-> s]

(* -------------------------- response bodies --------------------------- *)
\* the markup _login looks for, as one fragment of a page
LogoutButton == "<input type=\"submit\" class=\"btn-logout3\" name=\"logout\" value=\" \" title=\"Logout\"/>"
\* pages are sequences of fragments; `x in r.text` is a search over them
LoginPages ==
  { <<>>,
    <<"<html>", "<form id=\"login\">", "</html>">>,
    <<LogoutButton>>,
    <<"<html>", LogoutButton, "</html>">> }

StatusBodies ==
  {"", "<html>", "null", "[\"0\",\"2\",\"0\"]", "[\"0\",\"0\",\"0\"]", "[\"0\",\"2\"]"}
TempBodies ==
  {"", "<html>", "null", "[]", "[\"abc\",\"60\"]",
   "[\"-1000000\",\"60\"]", "[\"0\",\"60\"]", "[\"100000\",\"60\"]"}
ToggleBodies == {"", "OK", "FAIL", "OK\n"}

\* the raw value with which the device reports a door without sensor
Sentinel == -1000000

\* raw temperatures, in thousandths of a degree Celsius: the sentinel and its
\* neighbours, a grid from -100000 to 100000, and the reading of the module
\* docstring (95.2376 F)
RawValues ==
  {Sentinel - 1, Sentinel, Sentinel + 1, 35132}
    \cup {k * 1250 : k \in (0 - MaxRawK)..MaxRawK}

\* the per-door payload ["<raw>","60"] of temperature.php
TempBody(raw) == "[\"" \o raw \o "\",\"60\"]"

\* json.loads(r.text): exc is TRUE when it raises
JsonLoads(text) ==
  CASE text = "null" -> [exc |-> FALSE, val |-> None]
    [] text = "[]" -> [exc |-> FALSE, val |-> List(<<>>)]
    [] text = "[\"0\",\"2\",\"0\"]" -> [exc |-> FALSE, val |-> List(<<"0", "2", "0">>)]
    [] text = "[\"0\",\"0\",\"0\"]" -> [exc |-> FALSE, val |-> List(<<"0", "0", "0">>)]
    [] text = "[\"0\",\"2\"]" -> [exc |-> FALSE, val |-> List(<<"0", "2">>)]
    [] text = "[\"abc\",\"60\"]" -> [exc |-> FALSE, val |-> List(<<"abc", "60">>)]
    [] text = "[\"-1000000\",\"60\"]" -> [exc |-> FALSE, val |-> List(<<"-1000000", "60">>)]
    [] text = "[\"0\",\"60\"]" -> [exc |-> FALSE, val |-> List(<<"0", "60">>)]
    [] text = "[\"100000\",\"60\"]" -> [exc |-> FALSE, val |-> List(<<"100000", "60">>)]
    [] \E r \in RawValues : text = TempBody(ToString(r)) ->
         [exc |-> FALSE,
          val |-> List(<<ToString(CHOOSE r \in RawValues : text = TempBody(ToString(r))),
                         "60">>)]
    [] OTHER -> [exc |-> TRUE, val |-> None]

\* float(s): the number that the decimal string s writes, for the strings of
\* RawValues; exc is TRUE on ValueError
Float(s) ==
  IF \E r \in RawValues : ToString(r) = s
    THEN [exc |-> FALSE, val |-> CHOOSE r \in RawValues : ToString(r) = s]
    ELSE [exc |-> TRUE, val |-> 0]

\* variant: the offset of the Fahrenheit scale is left out
Fahrenheit_NoOffset(raw) == 18 * raw

\* fahrenheit = 9.0/5.0 * (raw/1000.0) + 32.0, in units of 1/10000 degree
Fahrenheit(raw) == 18 * raw + 320000


(* ----------------------- the code's decisions ------------------------- *)
\* variant: the status code alone decides, the page is not searched
LoginSucceeds_StatusOnly(code, page) ==
  code = HTTP_OK

\* _login, lines 49-50: r.status_code == 200 and '<input ...>' in r.text
LoginSucceeds(code, page) ==
  code = HTTP_OK /\ \E i \in 1..Len(page) : page[i] = LogoutButton

\* variant: the cookie of the response is stored before the response is judged
Login_StoresCookieFirst(code, page, cookie, sid) ==
  LET stored == IF cookie = NoCookie THEN sid ELSE cookie
  IN  IF LoginSucceeds(code, page)
        THEN IF cookie = NoCookie
               THEN [exc |-> TRUE, ret |-> None, session_id |-> sid]
               ELSE [exc |-> FALSE, ret |-> True, session_id |-> stored]
        ELSE [exc |-> FALSE, ret |-> False, session_id |-> stored]

\* variant: a refused login forgets the session (session_id = None)
Login_ClearsOnFailure(code, page, cookie, sid) ==
  IF LoginSucceeds(code, page)
    THEN IF cookie = NoCookie
           THEN [exc |-> TRUE, ret |-> None, session_id |-> sid]
           ELSE [exc |-> FALSE, ret |-> True, session_id |-> cookie]
    ELSE [exc |-> FALSE, ret |-> False, session_id |-> NoSession]

\* variant: a successful login returns True without storing the cookie
Login_NoStore(code, page, cookie, sid) ==
  IF LoginSucceeds(code, page)
    THEN IF cookie = NoCookie
           THEN [exc |-> TRUE, ret |-> None, session_id |-> sid]
           ELSE [exc |-> FALSE, ret |-> True, session_id |-> sid]
    ELSE [exc |-> FALSE, ret |-> False, session_id |-> sid]

\* variant: the cookie is read with r.cookies.get('PHPSESSID'), which gives
\* None instead of raising when the response has no such cookie
Login_CookieGet(code, page, cookie, sid) ==
  IF LoginSucceeds(code, page)
    THEN [exc |-> FALSE, ret |-> True,
          session_id |-> IF cookie = NoCookie THEN NoSession ELSE cookie]
    ELSE [exc |-> FALSE, ret |-> False, session_id |-> sid]

\* _login, lines 44-53, on the response (code, page, cookie) with
\* self.session_id = sid.  r.cookies['PHPSESSID'] raises KeyError when the
\* response carries no such cookie.
Login(code, page, cookie, sid) ==
  IF LoginSucceeds(code, page)
    THEN IF cookie = NoCookie
           THEN [exc |-> TRUE, ret |-> None, session_id |-> sid]
           ELSE [exc |-> FALSE, ret |-> True, session_id |-> cookie]
    ELSE [exc |-> FALSE, ret |-> False, session_id |-> sid]

\* variant: the cookie jar of the request is left empty
SessionCookie_Empty(sid) == NoSession

\* lines 65, 109, 144: cookies = dict(PHPSESSID=self.session_id), the token
\* that the requests of an attempt carry
SessionCookie(sid) == sid

\* variant: a door number beyond the last door is cut down to it
ToggleUrlDoor_Clamped(door_num) ==
  IF door_num > NumDoors THEN NumDoors ELSE door_num

\* line 145: the numdoor parameter of the toggle request
ToggleUrlDoor(door_num) == door_num

\* _doGetStatus, lines 67-72, on the response (code, text)
DoGetStatus(code, text) ==
  IF code = HTTP_OK /\ text # ""
    THEN IF JsonLoads(text).exc THEN None ELSE JsonLoads(text).val
    ELSE None

\* _doGetTemp, lines 116-130: the body of the loop for one door, on the
\* response (code, text) with returnResults = acc.  exc is TRUE when the
\* except clause is taken (return None).
DoGetTempDoor(code, text, acc) ==
  IF code = HTTP_OK /\ text # ""
    THEN LET results == JsonLoads(text)
         IN  IF results.exc
               THEN [exc |-> TRUE, acc |-> acc]
               ELSE IF results.val.t = "None"
                 THEN [exc |-> FALSE, acc |-> acc]
                 ELSE IF Len(results.val.v) = 0
                   THEN [exc |-> TRUE, acc |-> acc]
                   ELSE IF results.val.v[1] = "-1000000"
                     THEN [exc |-> FALSE, acc |-> Append(acc, 0)]
                     ELSE IF Float(results.val.v[1]).exc
                       THEN [exc |-> TRUE, acc |-> acc]
                       ELSE [exc |-> FALSE,
                             acc |-> Append(acc, Fahrenheit(Float(results.val.v[1]).val))]
    ELSE [exc |-> FALSE, acc |-> acc]

\* _doToggleDoor, lines 146-148, on the response (code, text)
DoToggleDoor(code, text) ==
  IF code = HTTP_OK /\ text = "OK" THEN True ELSE False

\* variant: the test is inverted (result != None)
ResultIsNone_Inverted(result) == result.t # "None"

\* getStatus line 80 and getTemp line 92: result == None
ResultIsNone(result) == result.t = "None"

\* variant: the test of getStatus copied into toggleDoor (result == None)
ResultIsFalse_CopiedNone(result) == result.t = "None"

\* variant: the test is inverted (result != False)
ResultIsFalse_Inverted(result) == result.t # "False"

\* toggleDoor line 156: result == False
ResultIsFalse(result) == result.t = "False"

\* the test that sends a public operation to _login
RetryTest(op, result) ==
  IF op = "toggleDoor" THEN ResultIsFalse(result) ELSE ResultIsNone(result)

\* variant: any returned login_result counts (login_result != None)
LoginResultIsTrue_NotNone(login_result) == login_result.t # "None"

\* lines 82, 94, 158: login_result == True
LoginResultIsTrue(login_result) == login_result.t = "True"

(* ------------------------------- state -------------------------------- *)
VARIABLES
  session_id,   \* self.session_id
  call,         \* per caller: the position and locals of its running operation
  hist,         \* per caller: what the running operation has done so far
  probe         \* a raw temperature put through the conversion on its own

vars == <<session_id, call, hist, probe>>

\* a caller that runs no operation
IdleCall ==
  [pc |-> "idle", op |-> "none", door |-> 0,
   result |-> None, login_result |-> None, ret |-> None, raised |-> FALSE,
   cookies |-> NoSession, door_num |-> 1, returnResults |-> <<>>]

\* ev: the attempts ("act") and logins ("login") started, in order
\* att: one record per finished attempt; login: one per finished _login
\* curBad, curInvalid: the per-door responses of the running temperature fetch
IdleHist ==
  [ev |-> <<>>, att |-> <<>>, login |-> <<>>, curBad |-> FALSE, curInvalid |-> 0]

\* no raw temperature under conversion
NoProbe == [raw |-> "", done |-> FALSE, out |-> [exc |-> FALSE, acc |-> <<>>]]

\* __init__, lines 28-32
Init ==
  /\ session_id = NoSession
  /\ call = [c \in Callers |-> IdleCall]
  /\ hist = [c \in Callers |-> IdleHist]
  /\ probe = NoProbe

(* ------------------------- the public wrappers ------------------------ *)
\* variant: the wrapper loops, a failed second attempt logs in again
AfterAttempt_Loop(cr, r) ==
  IF RetryTest(cr.op, r)
    THEN [cr EXCEPT !.pc = "login", !.result = r]
    ELSE [cr EXCEPT !.pc = "done", !.result = r, !.ret = r]

\* getStatus 79-84, getTemp 91-96, toggleDoor 155-160: what the wrapper does
\* with the value r that an attempt of its action returned.  After the first
\* attempt it keeps r in result and either goes to _login or returns result;
\* the value of the second attempt is returned as it is.
AfterAttempt(cr, r) ==
  IF cr.pc = "first"
    THEN IF RetryTest(cr.op, r)
           THEN [cr EXCEPT !.pc = "login", !.result = r]
           ELSE [cr EXCEPT !.pc = "done", !.result = r, !.ret = r]
    ELSE [cr EXCEPT !.pc = "done", !.ret = r]

\* lines 81-84, 93-96, 157-160: what the wrapper does with the outcome of
\* _login.  An exception of _login leaves the wrapper; True leads to the
\* second attempt; anything else returns result.
AfterLogin(cr, lg) ==
  IF lg.exc
    THEN [cr EXCEPT !.pc = "done", !.raised = TRUE]
    ELSE IF LoginResultIsTrue(lg.ret)
      THEN [cr EXCEPT !.pc = "second", !.login_result = lg.ret]
      ELSE [cr EXCEPT !.pc = "done", !.login_result = lg.ret, !.ret = cr.result]

(* ------------------------------ actions ------------------------------- *)
\* a caller enters getStatus()
CallGetStatus(c) ==
  /\ call[c].pc = "idle"
  /\ call' = [call EXCEPT ![c] = [IdleCall EXCEPT !.pc = "first", !.op = "getStatus"]]
  /\ UNCHANGED <<session_id, hist, probe>>

\* a caller enters getTemp()
CallGetTemp(c) ==
  /\ call[c].pc = "idle"
  /\ call' = [call EXCEPT ![c] = [IdleCall EXCEPT !.pc = "first", !.op = "getTemp"]]
  /\ UNCHANGED <<session_id, hist, probe>>

\* a caller enters toggleDoor(d)
CallToggleDoor(c) ==
  /\ call[c].pc = "idle"
  /\ \E d \in DoorArgs :
       call' = [call EXCEPT ![c] =
                  [IdleCall EXCEPT !.pc = "first", !.op = "toggleDoor", !.door = d]]
  /\ UNCHANGED <<session_id, hist, probe>>

\* _doGetStatus, lines 64-72: the request with the current session_id as
\* cookie, and the wrapper's reaction to what it returns
StatusAnswer(c, code, text) ==
  LET r == DoGetStatus(code, text)
  IN  /\ call' = [call EXCEPT ![c] = AfterAttempt(@, r)]
      /\ hist' = [hist EXCEPT
            ![c].ev = Append(@, "act"),
            ![c].att = Append(@, [ret |-> r, cookie |-> SessionCookie(session_id),
                                  code |-> code, text |-> text])]
      /\ UNCHANGED <<session_id, probe>>

\* getStatus against a device that may answer anything
StatusRequest(c) ==
  /\ call[c].op = "getStatus"
  /\ call[c].pc \in {"first", "second"}
  /\ \E code \in StatusCodes, text \in StatusBodies : StatusAnswer(c, code, text)

\* _doToggleDoor, lines 143-148, and the wrapper's reaction
ToggleAnswer(c, code, text) ==
  LET r == DoToggleDoor(code, text)
  IN  /\ call' = [call EXCEPT ![c] = AfterAttempt(@, r)]
      /\ hist' = [hist EXCEPT
            ![c].ev = Append(@, "act"),
            ![c].att = Append(@, [ret |-> r, cookie |-> SessionCookie(session_id),
                                  code |-> code, text |-> text,
                                  numdoor |-> ToggleUrlDoor(call[c].door)])]
      /\ UNCHANGED <<session_id, probe>>

\* toggleDoor against a device that may answer anything
ToggleRequest(c) ==
  /\ call[c].op = "toggleDoor"
  /\ call[c].pc \in {"first", "second"}
  /\ \E code \in StatusCodes, text \in ToggleBodies : ToggleAnswer(c, code, text)

\* a per-door response that is non-200, empty or not JSON
BadTempResponse(code, text) ==
  code # HTTP_OK \/ text = "" \/ JsonLoads(text).exc

\* a per-door response that is non-200 or 200 with an empty body
InvalidSessionResponse(code, text) ==
  code # HTTP_OK \/ text = ""

\* _doGetTemp, lines 108-131: one turn of the loop, the request for door
\* door_num.  cookies is built once, before the loop (line 109).  The fetch
\* returns None from the except clause, returns returnResults after door 3,
\* and otherwise goes on to the next door.
TempRequest(c) ==
  /\ call[c].op = "getTemp"
  /\ call[c].pc \in {"first", "second"}
  /\ \E code \in StatusCodes, text \in TempBodies :
       LET cr == call[c]
           cookies == IF cr.door_num = 1 THEN SessionCookie(session_id) ELSE cr.cookies
           s == DoGetTempDoor(code, text, cr.returnResults)
           bad == hist[c].curBad \/ BadTempResponse(code, text)
           inv == hist[c].curInvalid +
                    (IF InvalidSessionResponse(code, text) THEN 1 ELSE 0)
           back == [cr EXCEPT !.cookies = NoSession, !.door_num = 1,
                              !.returnResults = <<>>]
           ev == IF cr.door_num = 1 THEN Append(hist[c].ev, "act") ELSE hist[c].ev
           done(r) ==
             /\ call' = [call EXCEPT ![c] = AfterAttempt(back, r)]
             /\ hist' = [hist EXCEPT
                   ![c].ev = ev,
                   ![c].att = Append(@, [ret |-> r, cookie |-> cookies,
                                         anyBad |-> bad,
                                         allInvalid |-> (inv = NumDoors)]),
                   ![c].curBad = FALSE,
                   ![c].curInvalid = 0]
       IN  IF s.exc
             THEN done(None)
             ELSE IF cr.door_num = NumDoors
               THEN done(List(s.acc))
               ELSE /\ call' = [call EXCEPT ![c] =
                                  [cr EXCEPT !.cookies = cookies,
                                             !.door_num = cr.door_num + 1,
                                             !.returnResults = s.acc]]
                    /\ hist' = [hist EXCEPT ![c].ev = ev,
                                            ![c].curBad = bad,
                                            ![c].curInvalid = inv]
  /\ UNCHANGED <<session_id, probe>>

\* _login, lines 44-53, and the wrapper's reaction
LoginAnswer(c, code, page, cookie) ==
  LET lg == Login(code, page, cookie, session_id)
  IN  /\ session_id' = lg.session_id
      /\ call' = [call EXCEPT ![c] = AfterLogin(@, lg)]
      /\ hist' = [hist EXCEPT
            ![c].ev = Append(@, "login"),
            ![c].login = Append(@, [code |-> code,
                                    markup |-> (\E i \in 1..Len(page) :
                                                  page[i] = LogoutButton),
                                    cookie |-> cookie,
                                    before |-> session_id])]
      /\ UNCHANGED probe

\* _login against a device that may answer anything
LoginRequest(c) ==
  /\ call[c].pc = "login"
  /\ \E code \in StatusCodes, page \in LoginPages, cookie \in Tokens \cup {NoCookie} :
       LoginAnswer(c, code, page, cookie)

\* the public operation has returned (or raised); the caller is free again
Return(c) ==
  /\ call[c].pc = "done"
  /\ call' = [call EXCEPT ![c] = IdleCall]
  /\ hist' = [hist EXCEPT ![c] = IdleHist]
  /\ UNCHANGED <<session_id, probe>>

\* the documented use: one caller, one operation at a time
Sequential == {1}

Next ==
  \E c \in Sequential :
    \/ CallGetStatus(c)
    \/ CallGetTemp(c)
    \/ CallToggleDoor(c)
    \/ StatusRequest(c)
    \/ TempRequest(c)
    \/ ToggleRequest(c)
    \/ LoginRequest(c)
    \/ Return(c)

Spec == Init /\ [][Next]_vars

\* the blocking calls of the code return: every request is answered, and a
\* finished operation hands control back to its caller
Fairness ==
  \A c \in Sequential :
    /\ WF_vars(StatusRequest(c))
    /\ WF_vars(TempRequest(c))
    /\ WF_vars(ToggleRequest(c))
    /\ WF_vars(LoginRequest(c))
    /\ WF_vars(Return(c))

SpecLive == Spec /\ Fairness

(* ------------------ two callers on one instance ---------------------- *)
\* Overlapping calls of toggleDoor and getStatus on the same instance, taken
\* request by request.  The device here either refuses a request (500, no
\* body, no cookie) or accepts it.
ConcStatusAnswers == {<<500, "">>, <<HTTP_OK, "[\"0\",\"2\",\"0\"]">>}
ConcToggleAnswers == {<<500, "">>, <<HTTP_OK, "OK">>}
ConcLoginAnswers ==
  {<<500, <<>>, NoCookie>>}
    \cup {<<HTTP_OK, <<"<html>", LogoutButton, "</html>">>, t>> : t \in Tokens}

ConcStatusRequest(c) ==
  /\ call[c].op = "getStatus"
  /\ call[c].pc \in {"first", "second"}
  /\ \E a \in ConcStatusAnswers : StatusAnswer(c, a[1], a[2])

ConcToggleRequest(c) ==
  /\ call[c].op = "toggleDoor"
  /\ call[c].pc \in {"first", "second"}
  /\ \E a \in ConcToggleAnswers : ToggleAnswer(c, a[1], a[2])

ConcLoginRequest(c) ==
  /\ call[c].pc = "login"
  /\ \E a \in ConcLoginAnswers : LoginAnswer(c, a[1], a[2], a[3])

NextConc ==
  \E c \in Callers :
    \/ CallGetStatus(c)
    \/ CallToggleDoor(c)
    \/ ConcStatusRequest(c)
    \/ ConcToggleRequest(c)
    \/ ConcLoginRequest(c)
    \/ Return(c)

SpecConc == Init /\ [][NextConc]_vars

(* ------------------- the conversion on its own ----------------------- *)
\* a door's payload ["<raw>","60"] for each raw temperature, not yet converted
InitConv ==
  /\ session_id = NoSession
  /\ call = [c \in Callers |-> IdleCall]
  /\ hist = [c \in Callers |-> IdleHist]
  /\ probe \in {[NoProbe EXCEPT !.raw = ToString(r)] : r \in RawValues}

\* _doGetTemp, lines 116-126, applied to a 200 response with that payload and
\* an empty returnResults
Convert ==
  /\ ~probe.done
  /\ probe' = [probe EXCEPT
        !.done = TRUE,
        !.out = DoGetTempDoor(HTTP_OK, TempBody(probe.raw), <<>>)]
  /\ UNCHANGED <<session_id, call, hist>>

NextConv == Convert

SpecConv == InitConv /\ [][NextConv]_vars

(* ---------------------- vocabulary of the claims ---------------------- *)
Count(s, x) == Cardinality({i \in 1..Len(s) : s[i] = x})

\* the response that makes _login succeed: 200 with the logout button
LoginResponseOk(l) == l.code = HTTP_OK /\ l.markup

\* the first attempt of c's operation has returned
FirstDone(c) == Len(hist[c].att) >= 1

\* the device accepted the attempt a of operation op
AttemptSucceeded(op, a) ==
  CASE op = "getStatus" ->
         a.code = HTTP_OK /\ a.text \in {"[\"0\",\"2\",\"0\"]", "[\"0\",\"0\",\"0\"]"}
    [] op = "toggleDoor" -> a.code = HTTP_OK /\ a.text = "OK"
    [] op = "getTemp" -> a.ret.t = "list" /\ ~a.anyBad
    [] OTHER -> FALSE

\* the attempt a of operation op met a non-200, empty or malformed response
AttemptFailed(op, a) ==
  CASE op = "getStatus" -> a.code # HTTP_OK \/ a.text \in {"", "<html>"}
    [] op = "toggleDoor" -> a.code # HTTP_OK \/ a.text # "OK"
    [] op = "getTemp" -> a.anyBad
    [] OTHER -> FALSE

\* the value with which operation op reports failure
FailureValue(op) == IF op = "toggleDoor" THEN False ELSE None

(* ------------------------------ claims -------------------------------- *)
\* C1: when the first attempt of the action of a public operation succeeds,
\* the operation makes no login and no second attempt and returns the value
\* of that first attempt.
C1_FirstSuccessNoLogin ==
  \A c \in Callers :
    (FirstDone(c) /\ AttemptSucceeded(call[c].op, hist[c].att[1]))
      => /\ call[c].pc = "done"
         /\ hist[c].ev = <<"act">>
         /\ Len(hist[c].login) = 0
         /\ ~call[c].raised
         /\ call[c].ret = hist[c].att[1].ret

C1_Witness ==
  \E c \in Callers :
    /\ call[c].pc = "done"
    /\ call[c].op = "getStatus"
    /\ AttemptSucceeded("getStatus", hist[c].att[1])
    /\ call[c].ret = List(<<"0", "2", "0">>)

\* C2 (as stated): when the first attempt meets a non-200, empty or
\* malformed response, exactly one login is made in the operation, after
\* the first attempt.
C2_FirstFailureOneLogin ==
  \A c \in Callers :
    (FirstDone(c) /\ AttemptFailed(call[c].op, hist[c].att[1]))
      => \/ call[c].pc = "login" /\ hist[c].ev = <<"act">>
         \/ /\ Len(hist[c].ev) >= 2
            /\ hist[c].ev[1] = "act"
            /\ hist[c].ev[2] = "login"
            /\ Count(hist[c].ev, "login") = 1

\* C3 (as stated): when the first attempt fails, the second attempt is
\* issued whether the login returned true or false.
C3_RetryRegardlessOfLogin ==
  \A c \in Callers :
    (/\ call[c].pc = "done"
     /\ FirstDone(c)
     /\ AttemptFailed(call[c].op, hist[c].att[1])
     /\ Len(hist[c].login) = 1
     /\ ~call[c].raised)
      => Count(hist[c].ev, "act") = 2

\* C3 (amended): when the first attempt returns the failure value of the
\* operation, one login follows, and the action is attempted a second time
\* exactly when that login returned true: once more, and not at all
\* otherwise.
C3_RetryIffLoginTrue ==
  \A c \in Callers :
    (/\ call[c].pc = "done"
     /\ FirstDone(c)
     /\ hist[c].att[1].ret.t = FailureValue(call[c].op).t)
      => /\ Len(hist[c].login) = 1
         /\ IF LoginResponseOk(hist[c].login[1]) /\ hist[c].login[1].cookie # NoCookie
              THEN hist[c].ev = <<"act", "login", "act">>
              ELSE hist[c].ev = <<"act", "login">>

C3_Witness ==
  \E c \in Callers :
    /\ call[c].pc = "done"
    /\ call[c].op = "toggleDoor"
    /\ hist[c].ev = <<"act", "login", "act">>
    /\ hist[c].att[1].ret = False
    /\ hist[c].att[2].ret = True

\* C4: when the login on the retry path is refused (non-200, or no logout
\* button), the operation ends there: it returns absent (getStatus,
\* getTemp) or false (toggleDoor), with no second attempt and no second
\* login.
C4_LoginFailureEndsOperation ==
  \A c \in Callers :
    (Len(hist[c].login) = 1 /\ ~LoginResponseOk(hist[c].login[1]))
      => /\ call[c].pc = "done"
         /\ hist[c].ev = <<"act", "login">>
         /\ ~call[c].raised
         /\ call[c].ret = FailureValue(call[c].op)

C4_Witness ==
  \E c \in Callers :
    /\ call[c].pc = "done"
    /\ call[c].op = "getTemp"
    /\ hist[c].ev = <<"act", "login">>
    /\ hist[c].login[1].code = HTTP_OK
    /\ ~hist[c].login[1].markup
    /\ call[c].ret = None

\* C5: a call of a public operation makes at most two attempts of its action
\* and at most one login, in the order attempt, login, attempt, and always
\* comes to its end, whatever the device answers.
C5_Shape ==
  \A c \in Callers :
    /\ Count(hist[c].ev, "act") <= 2
    /\ Count(hist[c].ev, "login") <= 1
    /\ \E n \in 0..3 : hist[c].ev = SubSeq(<<"act", "login", "act">>, 1, n)
    /\ call[c].door_num \in 1..NumDoors

C5_BoundedRetryTerminates ==
  /\ []C5_Shape
  /\ \A c \in Callers : (call[c].pc # "idle") ~> (call[c].pc = "done")

C5_Witness ==
  \E c \in Callers :
    /\ call[c].pc = "done"
    /\ call[c].op = "getTemp"
    /\ hist[c].ev = <<"act", "login", "act">>
    /\ hist[c].att[2].ret = None

\* C6 (as stated): a temperature fetch in which some per-door request was
\* answered non-200, empty or unparseable returns absent, never a vector of
\* the doors that answered.
C6_BadDoorAbortsFetch ==
  \A c \in Callers :
    call[c].op = "getTemp"
      => \A i \in 1..Len(hist[c].att) :
           hist[c].att[i].anyBad => hist[c].att[i].ret = None

\* C7 (as stated): when every per-door request of the first temperature
\* fetch is answered non-200 or 200 with an empty body, getTemp calls login,
\* and after a login that returned true it fetches once more and returns
\* that second result.
C7_GetTempRetriesOnInvalidSession ==
  \A c \in Callers :
    (call[c].op = "getTemp" /\ FirstDone(c) /\ hist[c].att[1].allInvalid)
      => \/ call[c].pc = "login"
         \/ /\ Len(hist[c].login) = 1
            /\ (call[c].pc = "done" /\ LoginResultIsTrue(call[c].login_result))
                 => /\ Len(hist[c].att) = 2
                    /\ call[c].ret = hist[c].att[2].ret

\* C8 (as stated): a value returned by getTemp is absent or a vector of
\* exactly 3 temperatures.
C8_TempVectorLength3 ==
  \A c \in Callers :
    (call[c].op = "getTemp" /\ call[c].pc = "done" /\ ~call[c].raised)
      => \/ call[c].ret = None
         \/ call[c].ret.t = "list" /\ Len(call[c].ret.v) = NumDoors

\* C9: a login whose response is non-200, or 200 without the logout button,
\* returns false and leaves session_id as it was, unset or set.
C9_FailedLoginKeepsSession ==
  [][\A c \in Callers :
       (/\ Len(hist[c].login) = 0
        /\ Len(hist'[c].login) = 1
        /\ ~LoginResponseOk(hist'[c].login[1]))
         => /\ session_id' = session_id
            /\ call'[c].login_result = False
            /\ ~call'[c].raised]_vars

\* a refused login whose response carried a fresh cookie, with a session set
C9_Witness ==
  \E c \in Callers :
    /\ Len(hist[c].login) = 1
    /\ ~LoginResponseOk(hist[c].login[1])
    /\ hist[c].login[1].before # NoSession
    /\ hist[c].login[1].cookie # NoCookie
    /\ hist[c].login[1].cookie # hist[c].login[1].before
    /\ session_id = hist[c].login[1].before

\* C10 (as stated): toggleDoor returns true exactly when the last toggle
\* request it issued was answered 200 with body OK, and false in every other
\* execution.
C10_ToggleResult ==
  \A c \in Callers :
    (call[c].op = "toggleDoor" /\ call[c].pc = "done")
      => /\ ~call[c].raised
         /\ call[c].ret \in {True, False}
         /\ call[c].ret = True
              <=> AttemptSucceeded("toggleDoor", hist[c].att[Len(hist[c].att)])

\* C11 (as stated): when a toggle request is answered 200 with a body other
\* than OK, toggleDoor returns false without retry: no login and no second
\* toggle request.
C11_RejectedToggleNoRetry ==
  \A c \in Callers :
    (/\ call[c].op = "toggleDoor"
     /\ FirstDone(c)
     /\ hist[c].att[1].code = HTTP_OK
     /\ hist[c].att[1].text # "OK")
      => /\ call[c].pc = "done"
         /\ hist[c].ev = <<"act">>
         /\ call[c].ret = False

\* C11 (amended): a toggle request answered 200 with a body other than OK is
\* a failed attempt like any other: toggleDoor makes one login after it, and
\* a second toggle request exactly when that login returned true.
C11_RejectedToggleRetries ==
  \A c \in Callers :
    (/\ call[c].op = "toggleDoor"
     /\ FirstDone(c)
     /\ hist[c].att[1].code = HTTP_OK
     /\ hist[c].att[1].text # "OK")
      => /\ hist[c].att[1].ret = False
         /\ \/ call[c].pc = "login" /\ hist[c].ev = <<"act">>
            \/ /\ Len(hist[c].login) = 1
               /\ IF LoginResponseOk(hist[c].login[1]) /\ hist[c].login[1].cookie # NoCookie
                    THEN \/ call[c].pc = "second" /\ hist[c].ev = <<"act", "login">>
                         \/ call[c].pc = "done" /\ hist[c].ev = <<"act", "login", "act">>
                    ELSE call[c].pc = "done" /\ hist[c].ev = <<"act", "login">>

C11_Witness ==
  \E c \in Callers :
    /\ call[c].op = "toggleDoor"
    /\ call[c].pc = "done"
    /\ hist[c].ev = <<"act", "login", "act">>
    /\ hist[c].att[1].code = HTTP_OK
    /\ hist[c].att[1].text = "FAIL"
    /\ hist[c].att[2].text = "FAIL"

\* C12 (as stated): no public operation raises, whatever the status code,
\* body and cookie of the responses to its action and to its login.
C12_NeverRaises ==
  \A c \in Callers : ~call[c].raised

\* C13: the client starts without a session token, and session_id changes
\* only in a login step whose response is a success, to the cookie of that
\* response; it never goes back to absent.
C13_OnlyLoginWritesSession ==
  /\ session_id = NoSession
  /\ [][session_id' # session_id
          => /\ session_id' # NoSession
             /\ \E c \in Callers :
                  /\ call[c].pc = "login"
                  /\ Len(hist'[c].login) = 1
                  /\ LoginResponseOk(hist'[c].login[1])
                  /\ hist'[c].login[1].cookie = session_id']_vars

\* a session replaced by a later login, after fetches that left it alone
C13_Witness ==
  \E c \in Callers :
    /\ call[c].pc = "done"
    /\ hist[c].ev = <<"act", "login", "act">>
    /\ hist[c].login[1].before # NoSession
    /\ hist[c].login[1].before # session_id
    /\ session_id = hist[c].login[1].cookie

\* C14: for every raw first element of the per-door payload, the conversion
\* appends 0.0 for the sentinel "-1000000" and raw/1000 * 9/5 + 32 degrees
\* Fahrenheit for every other raw value; "0" gives 32.0 and "100000" gives
\* 212.0.  Temperatures are counted in 1/10000 degree.
C14_TemperatureConversion ==
  probe.done
    => /\ ~probe.out.exc
       /\ \A r \in RawValues :
            probe.raw = ToString(r)
              => probe.out.acc =
                   <<IF r = Sentinel
                       THEN 0
                       ELSE (r * 9 * 10) \div 5 + 32 * 10000>>
       /\ probe.raw = "-1000000" => probe.out.acc = <<0>>
       /\ probe.raw = "0" => probe.out.acc = <<320000>>
       /\ probe.raw = "100000" => probe.out.acc = <<2120000>>

C14_Witness ==
  /\ probe.done
  /\ probe.raw = "100000"
  /\ probe.out.acc = <<2120000>>

\* C15 (as stated): a non-absent value returned by getStatus is a sequence of
\* exactly 3 status codes, the codes of the body of the last status fetch of
\* the operation (["0","2","0"] gives [CLOSED, OPEN, CLOSED]).
C15_StatusVector ==
  \A c \in Callers :
    (/\ call[c].op = "getStatus"
     /\ call[c].pc = "done"
     /\ ~call[c].raised
     /\ call[c].ret # None)
      => /\ call[c].ret.t = "list"
         /\ Len(call[c].ret.v) = NumDoors
         /\ \A i \in 1..Len(call[c].ret.v) : call[c].ret.v[i] \in {"0", "1", "2", "4"}
         /\ call[c].ret = JsonLoads(hist[c].att[Len(hist[c].att)].text).val
         /\ hist[c].att[Len(hist[c].att)].text = "[\"0\",\"2\",\"0\"]"
              => call[c].ret.v = <<"0", "2", "0">>

\* C16: with one caller, the second attempt of an operation carries the
\* session token that the login of the same operation has just stored; the
\* first attempt carried the token from before that login.
C16_RetryCarriesNewToken ==
  \A c \in Callers :
    /\ Len(hist[c].att) = 2
         => /\ hist[c].ev = <<"act", "login", "act">>
            /\ Len(hist[c].login) = 1
            /\ hist[c].att[1].cookie = hist[c].login[1].before
            /\ hist[c].att[2].cookie = hist[c].login[1].cookie
            /\ hist[c].att[2].cookie # NoSession
    /\ (call[c].pc = "second" /\ call[c].door_num > 1)
         => call[c].cookies = hist[c].login[1].cookie

\* a retry whose token differs from the one of the failed first attempt
C16_Witness ==
  \E c \in Callers :
    /\ call[c].op = "getStatus"
    /\ Len(hist[c].att) = 2
    /\ hist[c].att[1].cookie # NoSession
    /\ hist[c].att[2].cookie # hist[c].att[1].cookie
    /\ hist[c].att[2].cookie = hist[c].login[1].cookie

\* C17: when login returns true, session_id is the PHPSESSID cookie of that
\* login response and is not absent; a client that holds a token keeps
\* holding one.
C17_LoginTrueStoresCookie ==
  /\ [](\A c \in Callers :
          LoginResultIsTrue(call[c].login_result)
            => /\ Len(hist[c].login) = 1
               /\ session_id = hist[c].login[1].cookie
               /\ session_id \in Tokens)
  /\ [][session_id # NoSession => session_id' # NoSession]_vars

C17_Witness ==
  \E c \in Callers :
    /\ call[c].pc = "second"
    /\ call[c].login_result = True
    /\ hist[c].login[1].before = NoSession
    /\ session_id = hist[c].login[1].cookie

\* C18: one toggleDoor call sends at most two toggle requests; the second is
\* sent only when the first was not acknowledged with 200 OK, so at most one
\* of them is acknowledged.
C18_AtMostOneAcknowledgedToggle ==
  \A c \in Callers :
    call[c].op = "toggleDoor"
      => /\ Len(hist[c].att) <= 2
         /\ Count(hist[c].ev, "act") = Len(hist[c].att)
         /\ Len(hist[c].att) = 2
              => ~AttemptSucceeded("toggleDoor", hist[c].att[1])
         /\ Cardinality({i \in 1..Len(hist[c].att) :
                           AttemptSucceeded("toggleDoor", hist[c].att[i])}) <= 1

C18_Witness ==
  \E c \in Callers :
    /\ call[c].op = "toggleDoor"
    /\ call[c].pc = "done"
    /\ Len(hist[c].att) = 2
    /\ ~AttemptSucceeded("toggleDoor", hist[c].att[1])
    /\ AttemptSucceeded("toggleDoor", hist[c].att[2])

\* C19: with two overlapping calls on one instance the login-then-retry
\* sequence is not atomic.  The second attempt of a call carries whatever
\* session_id holds when its request is made, whichever call's login stored
\* it; C19_Witness is the interleaving in which both calls have logged in and
\* the retry of one carries the token stored by the login of the other.
C19_RetryReadsSharedToken ==
  [][\A c \in Callers :
       (Len(hist[c].att) = 1 /\ Len(hist'[c].att) = 2)
         => /\ hist'[c].att[2].cookie = session_id
            /\ Len(hist[c].login) = 1
            /\ LoginResponseOk(hist[c].login[1])]_vars

C19_Witness ==
  \E c \in Callers, d \in Callers :
    /\ c # d
    /\ call[c].op = "toggleDoor"
    /\ call[d].op = "getStatus"
    /\ Len(hist[c].login) = 1 /\ LoginResponseOk(hist[c].login[1])
    /\ Len(hist[d].login) = 1 /\ LoginResponseOk(hist[d].login[1])
    /\ hist[d].login[1].before = hist[c].login[1].cookie
    /\ hist[d].login[1].cookie # hist[c].login[1].cookie
    /\ Len(hist[c].att) = 2
    /\ hist[c].att[2].cookie = hist[d].login[1].cookie
    /\ hist[c].att[2].cookie # hist[c].login[1].cookie

\* C20 (as stated): toggleDoor called with a door number outside 1..3 fails
\* at once with an error and sends no request, neither toggle nor login.
C20_InvalidDoorFailsFast ==
  \A c \in Callers :
    (call[c].op = "toggleDoor" /\ call[c].door \notin 1..NumDoors)
      => /\ hist[c].ev = <<>>
         /\ call[c].pc = "done" => call[c].raised

\* C20 (amended): toggleDoor does not check its door number.  Called with a
\* number outside 1..3 it sends the toggle request with that number and goes
\* on as for any door: a login after a failed attempt, a second request with
\* the same number after a login that returned true, and the value of the
\* last attempt or false as result.
C20_InvalidDoorIsSent ==
  \A c \in Callers :
    (call[c].op = "toggleDoor" /\ call[c].door \notin 1..NumDoors)
      => /\ \A i \in 1..Len(hist[c].att) : hist[c].att[i].numdoor = call[c].door
         /\ call[c].pc = "done"
              => /\ FirstDone(c)
                 /\ hist[c].ev \in {<<"act">>, <<"act", "login">>, <<"act", "login", "act">>}
                 /\ ~call[c].raised
                      => /\ call[c].ret \in {True, False}
                         /\ call[c].ret = True
                              <=> AttemptSucceeded("toggleDoor",
                                                   hist[c].att[Len(hist[c].att)])

C20_Witness ==
  \E c \in Callers :
    /\ call[c].op = "toggleDoor"
    /\ call[c].door = NumDoors + 1
    /\ call[c].pc = "done"
    /\ hist[c].att[1].numdoor = NumDoors + 1
    /\ hist[c].att[1].code = HTTP_OK
    /\ call[c].ret = True

====
